---- MODULE Spec2Model ----
(***************************************************************************)
(* Model of src/streamlit_app.py: the topic validator, the error guidance  *)
(* display and the page script of the AI News Crew front end.              *)
(*                                                                         *)
(* A Python str is modelled as a sequence of code points.  Each code point *)
(* is a one-character TLA+ string; a code point outside ASCII is written   *)
(* by its name, e.g. "U+274C".  The empty str is << >>.                    *)
(***************************************************************************)
EXTENDS Integers, Sequences, FiniteSets, TLC

VARIABLES
    topic,          \* str: the value of the topic text field / argument `topic`
    ret,            \* the tuple returned by validate_topic_input, << >> when it was not called
    error,          \* str(error): the message of the exception handed to the guidance display
    page,           \* the sequence of st.* elements on the page, in display order
    pc,             \* position of the caller
    session_state,  \* st.session_state: research_completed and last_topic
    run             \* what the latest execution of main did: its buttons and local values

vars == <<topic, ret, error, page, pc, session_state, run>>

----------------------------------------------------------------------------
(* Bounds of the explored inputs.                                          *)

\* largest number of whitespace code points put on each side of a topic
MaxPad == 1

\* how far the explored topic lengths reach around the two length limits
Margin == 2

\* largest number of words joined into an error message
MaxWords == 2

----------------------------------------------------------------------------
(* String literals of the source.                                          *)

\* src/streamlit_app.py:29  'Please enter a topic to research.'
MsgEmptyInput ==
    << "P", "l", "e", "a", "s", "e", " ", "e", "n", "t", "e", "r", " ", "a",
       " ", "t", "o", "p", "i", "c", " ", "t", "o", " ", "r", "e", "s", "e",
       "a", "r", "c", "h", "." >>

\* src/streamlit_app.py:34  'Topic must be at least 3 characters long.'
MsgTooShort ==
    << "T", "o", "p", "i", "c", " ", "m", "u", "s", "t", " ", "b", "e", " ",
       "a", "t", " ", "l", "e", "a", "s", "t", " ", "3", " ", "c", "h", "a",
       "r", "a", "c", "t", "e", "r", "s", " ", "l", "o", "n", "g", "." >>

\* src/streamlit_app.py:37  'Topic must be less than 200 characters long.'
MsgTooLong ==
    << "T", "o", "p", "i", "c", " ", "m", "u", "s", "t", " ", "b", "e", " ",
       "l", "e", "s", "s", " ", "t", "h", "a", "n", " ", "2", "0", "0", " ",
       "c", "h", "a", "r", "a", "c", "t", "e", "r", "s", " ", "l", "o", "n",
       "g", "." >>

\* src/streamlit_app.py:43  'Topic contains invalid characters. Please use only letters, numbers, and basic punctuation.'
MsgInvalidCharacters ==
    << "T", "o", "p", "i", "c", " ", "c", "o", "n", "t", "a", "i", "n", "s",
       " ", "i", "n", "v", "a", "l", "i", "d", " ", "c", "h", "a", "r", "a",
       "c", "t", "e", "r", "s", ".", " ", "P", "l", "e", "a", "s", "e", " ",
       "u", "s", "e", " ", "o", "n", "l", "y", " ", "l", "e", "t", "t", "e",
       "r", "s", ",", " ", "n", "u", "m", "b", "e", "r", "s", ",", " ", "a",
       "n", "d", " ", "b", "a", "s", "i", "c", " ", "p", "u", "n", "c", "t",
       "u", "a", "t", "i", "o", "n", "." >>

----------------------------------------------------------------------------
(* Python built-ins used by the validator.                                 *)

\* code points for which str.isspace() holds (the ones the model draws from)
Whitespace == {" ", "\t", "\n", "\r", "\f", "U+000B", "U+00A0", "U+3000"}

RECURSIVE lstrip(_)
lstrip(s) ==
    IF s = << >> \/ Head(s) \notin Whitespace THEN s ELSE lstrip(Tail(s))

RECURSIVE rstrip(_)
rstrip(s) ==
    IF s = << >> \/ s[Len(s)] \notin Whitespace THEN s
    ELSE rstrip(SubSeq(s, 1, Len(s) - 1))

\* variant: line 31 forgotten, the length tests see the raw input
strip_skipped(s) == s

\* variant: only the leading whitespace is removed
strip_leading_only(s) == lstrip(s)

\* str.strip(): removes leading and trailing whitespace, nothing inside
strip(s) == rstrip(lstrip(s))

\* bool(s) of a str: non-empty
truthy(s) == s # << >>

\* variant: the square brackets are missing from the list at line 40
ForbiddenChars_no_brackets == <<"<", ">", "{", "}">>

\* the code points rejected at line 40
ForbiddenChars == <<"<", ">", "{", "}", "[", "]">>

\* `char in topic` for a one-code-point str
char_in(char, s) == \E i \in 1..Len(s) : s[i] = char

\* any(char in topic for char in [...])
any_forbidden(s) == \E k \in 1..Len(ForbiddenChars) : char_in(ForbiddenChars[k], s)

\* variant: line 36 written `>= 200`
MaxTopicLen_exclusive == 200 - 1

\* the limits compared with len(topic) at lines 33 and 36
MinTopicLen == 3
MaxTopicLen == 200

----------------------------------------------------------------------------
(* validate_topic_input, lines 18-46.  Returns <<is_valid, error_message>>. *)

\* variant: the character test of line 40 placed before the length tests
validate_chars_first(topic0) ==
    IF ~truthy(topic0) \/ ~truthy(strip(topic0)) THEN <<FALSE, MsgEmptyInput>>
    ELSE LET t == strip(topic0) IN
         IF any_forbidden(t) THEN <<FALSE, MsgInvalidCharacters>>
         ELSE IF Len(t) < MinTopicLen THEN <<FALSE, MsgTooShort>>
         ELSE IF Len(t) > MaxTopicLen THEN <<FALSE, MsgTooLong>>
         ELSE <<TRUE, << >> >>

\* variant: line 46 returns the trimmed topic in place of the empty message
validate_returns_trimmed(topic0) ==
    IF ~truthy(topic0) \/ ~truthy(strip(topic0)) THEN <<FALSE, MsgEmptyInput>>
    ELSE LET t == strip(topic0) IN
         IF Len(t) < MinTopicLen THEN <<FALSE, MsgTooShort>>
         ELSE IF Len(t) > MaxTopicLen THEN <<FALSE, MsgTooLong>>
         ELSE IF any_forbidden(t) THEN <<FALSE, MsgInvalidCharacters>>
         ELSE <<TRUE, t>>

\* variant: line 28 written `if not topic:`, without the test of topic.strip()
validate_no_blank_test(topic0) ==
    IF ~truthy(topic0) THEN <<FALSE, MsgEmptyInput>>
    ELSE LET t == strip(topic0) IN
         IF Len(t) < MinTopicLen THEN <<FALSE, MsgTooShort>>
         ELSE IF Len(t) > MaxTopicLen THEN <<FALSE, MsgTooLong>>
         ELSE IF any_forbidden(t) THEN <<FALSE, MsgInvalidCharacters>>
         ELSE <<TRUE, << >> >>

validate_topic_input(topic0) ==
    IF ~truthy(topic0) \/ ~truthy(strip(topic0)) THEN <<FALSE, MsgEmptyInput>>
    ELSE LET t == strip(topic0) IN
         IF Len(t) < MinTopicLen THEN <<FALSE, MsgTooShort>>
         ELSE IF Len(t) > MaxTopicLen THEN <<FALSE, MsgTooLong>>
         ELSE IF any_forbidden(t) THEN <<FALSE, MsgInvalidCharacters>>
         ELSE <<TRUE, << >> >>

----------------------------------------------------------------------------
(* Session state and the record of one execution of main.                  *)

\* st.session_state as lines 140-143 initialise it
NewSession == [research_completed |-> FALSE, last_topic |-> << >>]

\* buttons pressed, calls made and values bound during one execution of main;
\* an optional value is << >> when absent and <<v>> when present
NoRun ==
    [ submit_button |-> FALSE,   \* st.button "Start Research" returned True (line 167)
      new_research  |-> FALSE,   \* st.button "New Research" returned True (line 173)
      kickoff_calls |-> << >>,   \* the `inputs` of every kickoff call (line 226)
      result        |-> << >>,   \* the value kickoff returned (line 226)
      caught        |-> << >>,   \* str(e) of the exception caught at line 241
      raised        |-> << >> ]  \* str(e) of an exception that left main

----------------------------------------------------------------------------
(* Inputs of the validator.                                                *)

TopicLengths ==
    (0..(MinTopicLen + Margin)) \cup ((MaxTopicLen - Margin)..(MaxTopicLen + Margin))

TopicChars == {"A", "z", " ", "\t", "<", ">", "{", "}", "[", "]"}

PadChars == {" ", "\n"}

Repeat(c, n) == [i \in 1..n |-> c]

\* n code points "A", the one at position pos replaced by d
Body(n, pos, d) == [i \in 1..n |-> IF i = pos THEN d ELSE "A"]

Pads == {Repeat(w, k) : w \in PadChars, k \in 0..MaxPad}

Bodies ==
    UNION {{Body(n, pos, d) : pos \in {1, 2, n}, d \in TopicChars} : n \in TopicLengths}

TopicInputs == {l \o b \o r : l \in Pads, b \in Bodies, r \in Pads}

----------------------------------------------------------------------------
(* The validator applied to every input.                                   *)

InitValidate ==
    /\ topic \in TopicInputs
    /\ ret = << >>
    /\ error = << >>
    /\ page = << >>
    /\ pc = "call"
    /\ session_state = NewSession
    /\ run = NoRun

CallValidate ==
    /\ pc = "call"
    /\ ret' = validate_topic_input(topic)
    /\ pc' = "return"
    /\ UNCHANGED <<topic, error, page, session_state, run>>

NextValidate == CallValidate

SpecValidate == InitValidate /\ [][NextValidate]_vars

----------------------------------------------------------------------------
(* String literals of the error guidance display.                          *)

\* src/streamlit_app.py:88  'U+274C An error occurred during research: '
ErrorPrefix ==
    << "U+274C", " ", "A", "n", " ", "e", "r", "r", "o", "r", " ", "o", "c", "c",
       "u", "r", "r", "e", "d", " ", "d", "u", "r", "i", "n", "g", " ", "r",
       "e", "s", "e", "a", "r", "c", "h", ":", " " >>

\* src/streamlit_app.py:94  'U+1F511 **API Configuration Issue**'
ApiTitle ==
    << "U+1F511", " ", "*", "*", "A", "P", "I", " ", "C", "o", "n", "f", "i", "g",
       "u", "r", "a", "t", "i", "o", "n", " ", "I", "s", "s", "u", "e", "*",
       "*" >>

\* src/streamlit_app.py:95-100  '\n        This appears to be an API configuration issue. Plea...'
ApiInfo ==
    << "\n", " ", " ", " ", " ", " ", " ", " ", " ", "T", "h", "i", "s", " ",
       "a", "p", "p", "e", "a", "r", "s", " ", "t", "o", " ", "b", "e", " ",
       "a", "n", " ", "A", "P", "I", " ", "c", "o", "n", "f", "i", "g", "u",
       "r", "a", "t", "i", "o", "n", " ", "i", "s", "s", "u", "e", ".", " ",
       "P", "l", "e", "a", "s", "e", " ", "c", "h", "e", "c", "k", ":", "\n",
       " ", " ", " ", " ", " ", " ", " ", " ", "-", " ", "Y", "o", "u", "r",
       " ", "A", "P", "I", " ", "k", "e", "y", "s", " ", "a", "r", "e", " ",
       "p", "r", "o", "p", "e", "r", "l", "y", " ", "s", "e", "t", " ", "i",
       "n", " ", "e", "n", "v", "i", "r", "o", "n", "m", "e", "n", "t", " ",
       "v", "a", "r", "i", "a", "b", "l", "e", "s", "\n", " ", " ", " ", " ",
       " ", " ", " ", " ", "-", " ", "Y", "o", "u", " ", "h", "a", "v", "e",
       " ", "s", "u", "f", "f", "i", "c", "i", "e", "n", "t", " ", "A", "P",
       "I", " ", "c", "r", "e", "d", "i", "t", "s", "/", "q", "u", "o", "t",
       "a", "\n", " ", " ", " ", " ", " ", " ", " ", " ", "-", " ", "Y", "o",
       "u", "r", " ", "i", "n", "t", "e", "r", "n", "e", "t", " ", "c", "o",
       "n", "n", "e", "c", "t", "i", "o", "n", " ", "i", "s", " ", "s", "t",
       "a", "b", "l", "e", "\n", " ", " ", " ", " ", " ", " ", " ", " " >>

\* src/streamlit_app.py:102  'U+1F310 **Connection Issue**'
ConnectionTitle ==
    << "U+1F310", " ", "*", "*", "C", "o", "n", "n", "e", "c", "t", "i", "o", "n",
       " ", "I", "s", "s", "u", "e", "*", "*" >>

\* src/streamlit_app.py:103-108  '\n        This appears to be a connection issue. Please:\n    ...'
ConnectionInfo ==
    << "\n", " ", " ", " ", " ", " ", " ", " ", " ", "T", "h", "i", "s", " ",
       "a", "p", "p", "e", "a", "r", "s", " ", "t", "o", " ", "b", "e", " ",
       "a", " ", "c", "o", "n", "n", "e", "c", "t", "i", "o", "n", " ", "i",
       "s", "s", "u", "e", ".", " ", "P", "l", "e", "a", "s", "e", ":", "\n",
       " ", " ", " ", " ", " ", " ", " ", " ", "-", " ", "C", "h", "e", "c",
       "k", " ", "y", "o", "u", "r", " ", "i", "n", "t", "e", "r", "n", "e",
       "t", " ", "c", "o", "n", "n", "e", "c", "t", "i", "o", "n", "\n", " ",
       " ", " ", " ", " ", " ", " ", " ", "-", " ", "T", "r", "y", " ", "a",
       "g", "a", "i", "n", " ", "i", "n", " ", "a", " ", "f", "e", "w", " ",
       "m", "o", "m", "e", "n", "t", "s", "\n", " ", " ", " ", " ", " ", " ",
       " ", " ", "-", " ", "C", "o", "n", "s", "i", "d", "e", "r", " ", "u",
       "s", "i", "n", "g", " ", "a", " ", "s", "i", "m", "p", "l", "e", "r",
       " ", "t", "o", "p", "i", "c", " ", "i", "f", " ", "t", "h", "e", " ",
       "i", "s", "s", "u", "e", " ", "p", "e", "r", "s", "i", "s", "t", "s",
       "\n", " ", " ", " ", " ", " ", " ", " ", " " >>

\* src/streamlit_app.py:110  'U+1F4BE **Resource Issue**'
ResourceTitle ==
    << "U+1F4BE", " ", "*", "*", "R", "e", "s", "o", "u", "r", "c", "e", " ", "I",
       "s", "s", "u", "e", "*", "*" >>

\* src/streamlit_app.py:111-116  '\n        This appears to be a resource issue. Please:\n      ...'
ResourceInfo ==
    << "\n", " ", " ", " ", " ", " ", " ", " ", " ", "T", "h", "i", "s", " ",
       "a", "p", "p", "e", "a", "r", "s", " ", "t", "o", " ", "b", "e", " ",
       "a", " ", "r", "e", "s", "o", "u", "r", "c", "e", " ", "i", "s", "s",
       "u", "e", ".", " ", "P", "l", "e", "a", "s", "e", ":", "\n", " ", " ",
       " ", " ", " ", " ", " ", " ", "-", " ", "T", "r", "y", " ", "a", " ",
       "m", "o", "r", "e", " ", "s", "p", "e", "c", "i", "f", "i", "c", " ",
       "o", "r", " ", "s", "i", "m", "p", "l", "e", "r", " ", "t", "o", "p",
       "i", "c", "\n", " ", " ", " ", " ", " ", " ", " ", " ", "-", " ", "R",
       "e", "s", "t", "a", "r", "t", " ", "t", "h", "e", " ", "a", "p", "p",
       "l", "i", "c", "a", "t", "i", "o", "n", " ", "i", "f", " ", "t", "h",
       "e", " ", "i", "s", "s", "u", "e", " ", "p", "e", "r", "s", "i", "s",
       "t", "s", "\n", " ", " ", " ", " ", " ", " ", " ", " ", "-", " ", "E",
       "n", "s", "u", "r", "e", " ", "y", "o", "u", "r", " ", "s", "y", "s",
       "t", "e", "m", " ", "h", "a", "s", " ", "s", "u", "f", "f", "i", "c",
       "i", "e", "n", "t", " ", "m", "e", "m", "o", "r", "y", " ", "a", "v",
       "a", "i", "l", "a", "b", "l", "e", "\n", " ", " ", " ", " ", " ", " ",
       " ", " " >>

\* src/streamlit_app.py:118  'U+1F527 **General Troubleshooting**'
GeneralTitle ==
    << "U+1F527", " ", "*", "*", "G", "e", "n", "e", "r", "a", "l", " ", "T", "r",
       "o", "u", "b", "l", "e", "s", "h", "o", "o", "t", "i", "n", "g", "*",
       "*" >>

\* src/streamlit_app.py:119-125  '\n        Please try the following:\n        - Ensure your top...'
GeneralInfo ==
    << "\n", " ", " ", " ", " ", " ", " ", " ", " ", "P", "l", "e", "a", "s",
       "e", " ", "t", "r", "y", " ", "t", "h", "e", " ", "f", "o", "l", "l",
       "o", "w", "i", "n", "g", ":", "\n", " ", " ", " ", " ", " ", " ", " ",
       " ", "-", " ", "E", "n", "s", "u", "r", "e", " ", "y", "o", "u", "r",
       " ", "t", "o", "p", "i", "c", " ", "i", "s", " ", "c", "l", "e", "a",
       "r", " ", "a", "n", "d", " ", "s", "p", "e", "c", "i", "f", "i", "c",
       "\n", " ", " ", " ", " ", " ", " ", " ", " ", "-", " ", "C", "h", "e",
       "c", "k", " ", "t", "h", "a", "t", " ", "a", "l", "l", " ", "d", "e",
       "p", "e", "n", "d", "e", "n", "c", "i", "e", "s", " ", "a", "r", "e",
       " ", "p", "r", "o", "p", "e", "r", "l", "y", " ", "i", "n", "s", "t",
       "a", "l", "l", "e", "d", "\n", " ", " ", " ", " ", " ", " ", " ", " ",
       "-", " ", "R", "e", "s", "t", "a", "r", "t", " ", "t", "h", "e", " ",
       "a", "p", "p", "l", "i", "c", "a", "t", "i", "o", "n", " ", "i", "f",
       " ", "i", "s", "s", "u", "e", "s", " ", "p", "e", "r", "s", "i", "s",
       "t", "\n", " ", " ", " ", " ", " ", " ", " ", " ", "-", " ", "C", "o",
       "n", "t", "a", "c", "t", " ", "s", "u", "p", "p", "o", "r", "t", " ",
       "i", "f", " ", "t", "h", "e", " ", "p", "r", "o", "b", "l", "e", "m",
       " ", "c", "o", "n", "t", "i", "n", "u", "e", "s", "\n", " ", " ", " ",
       " ", " ", " ", " ", " " >>

----------------------------------------------------------------------------
(* Python built-ins used by the error guidance display.                    *)

UpperCase ==
    << "A", "B", "C", "D", "E", "F", "G", "H", "I", "J", "K", "L", "M",
       "N", "O", "P", "Q", "R", "S", "T", "U", "V", "W", "X", "Y", "Z" >>

LowerCase ==
    << "a", "b", "c", "d", "e", "f", "g", "h", "i", "j", "k", "l", "m",
       "n", "o", "p", "q", "r", "s", "t", "u", "v", "w", "x", "y", "z" >>

\* str.lower() of one code point: an ASCII capital becomes its small letter,
\* every other code point the model draws from is left as it is
lower_char(c) ==
    IF \E i \in 1..26 : UpperCase[i] = c
    THEN LowerCase[CHOOSE i \in 1..26 : UpperCase[i] = c]
    ELSE c

\* str.lower()
lower(s) == [i \in 1..Len(s) |-> lower_char(s[i])]

\* `sub in s` for two strs: sub occurs in s as a contiguous run
str_in(sub, s) ==
    \E i \in 0..(Len(s) - Len(sub)) : SubSeq(s, i + 1, i + Len(sub)) = sub

\* the substrings tested at lines 93, 101 and 109
KwApi == <<"a", "p", "i">>
KwKey == <<"k", "e", "y">>
KwTimeout == <<"t", "i", "m", "e", "o", "u", "t">>
KwConnection == <<"c", "o", "n", "n", "e", "c", "t", "i", "o", "n">>
KwMemory == <<"m", "e", "m", "o", "r", "y">>
KwResource == <<"r", "e", "s", "o", "u", "r", "c", "e">>

\* one st.error / st.warning / st.info call and the text it displays
St(call, body) == [call |-> call, body |-> body]

----------------------------------------------------------------------------
(* display_error_with_guidance, lines 81-125.  The value is the sequence   *)
(* of display calls it makes, in order; error_msg is str(error).           *)

\* variant: the resource test of line 109 placed before the connection test
display_resource_first(error_msg) ==
    LET error_str == lower(error_msg) IN
    <<St("error", ErrorPrefix \o error_msg)>> \o
    ( IF str_in(KwApi, error_str) \/ str_in(KwKey, error_str)
        THEN <<St("warning", ApiTitle), St("info", ApiInfo)>>
      ELSE IF str_in(KwMemory, error_str) \/ str_in(KwResource, error_str)
        THEN <<St("warning", ResourceTitle), St("info", ResourceInfo)>>
      ELSE IF str_in(KwTimeout, error_str) \/ str_in(KwConnection, error_str)
        THEN <<St("warning", ConnectionTitle), St("info", ConnectionInfo)>>
      ELSE <<St("warning", GeneralTitle), St("info", GeneralInfo)>> )

\* variant: line 101 written `if` in place of `elif`
display_second_if(error_msg) ==
    LET error_str == lower(error_msg) IN
    <<St("error", ErrorPrefix \o error_msg)>> \o
    ( IF str_in(KwApi, error_str) \/ str_in(KwKey, error_str)
        THEN <<St("warning", ApiTitle), St("info", ApiInfo)>>
      ELSE << >> ) \o
    ( IF str_in(KwTimeout, error_str) \/ str_in(KwConnection, error_str)
        THEN <<St("warning", ConnectionTitle), St("info", ConnectionInfo)>>
      ELSE IF str_in(KwMemory, error_str) \/ str_in(KwResource, error_str)
        THEN <<St("warning", ResourceTitle), St("info", ResourceInfo)>>
      ELSE <<St("warning", GeneralTitle), St("info", GeneralInfo)>> )

display_error_with_guidance(error_msg) ==
    LET error_str == lower(error_msg) IN
    <<St("error", ErrorPrefix \o error_msg)>> \o
    ( IF str_in(KwApi, error_str) \/ str_in(KwKey, error_str)
        THEN <<St("warning", ApiTitle), St("info", ApiInfo)>>
      ELSE IF str_in(KwTimeout, error_str) \/ str_in(KwConnection, error_str)
        THEN <<St("warning", ConnectionTitle), St("info", ConnectionInfo)>>
      ELSE IF str_in(KwMemory, error_str) \/ str_in(KwResource, error_str)
        THEN <<St("warning", ResourceTitle), St("info", ResourceInfo)>>
      ELSE <<St("warning", GeneralTitle), St("info", GeneralInfo)>> )

----------------------------------------------------------------------------
(* Inputs of the error guidance display.                                   *)

\* words the explored messages are made of, in several letter cases
Words ==
    { <<"A", "P", "I">>,
      <<"K", "e", "y">>,
      <<"k", "e", "y">>,
      <<"T", "I", "M", "E", "O", "U", "T">>,
      <<"t", "i", "m", "e", "o", "u", "t">>,
      <<"C", "o", "n", "n", "e", "c", "t", "i", "o", "n">>,
      <<"c", "o", "n", "n", "e", "c", "t">>,
      <<"M", "e", "m", "o", "r", "y">>,
      <<"R", "E", "S", "O", "U", "R", "C", "E">>,
      <<"a", "p">>,
      <<"i">>,
      <<"f", "a", "i", "l", "e", "d">>,
      <<"N", "e", "t", "w", "o", "r", "k">> }

\* the empty separator lets two words run together
Separators == {<<" ">>, << >>}

RECURSIVE Join(_, _)
Join(ws, sep) ==
    IF Len(ws) = 0 THEN << >>
    ELSE IF Len(ws) = 1 THEN ws[1]
    ELSE ws[1] \o sep \o Join(Tail(ws), sep)

WordLists == UNION {[1..n -> Words] : n \in 0..MaxWords}

\* the messages listed by tests/test_streamlit_app.py, lines 186-217
TestApiErrors ==
    { <<"A", "P", "I", " ", "k", "e", "y", " ", "n", "o", "t", " ", "f", "o", "u", "n", "d">>,
      <<"I", "n", "v", "a", "l", "i", "d", " ", "A", "P", "I", " ", "c", "r", "e", "d", "e", "n", "t", "i", "a", "l", "s">>,
      <<"A", "P", "I", " ", "q", "u", "o", "t", "a", " ", "e", "x", "c", "e", "e", "d", "e", "d">> }

TestConnectionErrors ==
    { <<"C", "o", "n", "n", "e", "c", "t", "i", "o", "n", " ", "t", "i", "m", "e", "o", "u", "t">>,
      <<"N", "e", "t", "w", "o", "r", "k", " ", "c", "o", "n", "n", "e", "c", "t", "i", "o", "n", " ", "f", "a", "i", "l", "e", "d">>,
      <<"U", "n", "a", "b", "l", "e", " ", "t", "o", " ", "c", "o", "n", "n", "e", "c", "t", " ", "t", "o", " ", "s", "e", "r", "v", "e", "r">> }

TestMemoryErrors ==
    { <<"O", "u", "t", " ", "o", "f", " ", "m", "e", "m", "o", "r", "y">>,
      <<"I", "n", "s", "u", "f", "f", "i", "c", "i", "e", "n", "t", " ", "r", "e", "s", "o", "u", "r", "c", "e", "s">>,
      <<"M", "e", "m", "o", "r", "y", " ", "a", "l", "l", "o", "c", "a", "t", "i", "o", "n", " ", "f", "a", "i", "l", "e", "d">> }

ErrorMessages ==
    {Join(ws, sep) : ws \in WordLists, sep \in Separators}
        \cup TestApiErrors \cup TestConnectionErrors \cup TestMemoryErrors

----------------------------------------------------------------------------
(* The error guidance display applied to every message.                    *)

InitClassify ==
    /\ error \in ErrorMessages
    /\ topic = << >>
    /\ ret = << >>
    /\ page = << >>
    /\ pc = "call"
    /\ session_state = NewSession
    /\ run = NoRun

CallDisplayError ==
    /\ pc = "call"
    /\ page' = page \o display_error_with_guidance(error)
    /\ pc' = "shown"
    /\ UNCHANGED <<topic, ret, error, session_state, run>>

NextClassify == CallDisplayError

SpecClassify == InitClassify /\ [][NextClassify]_vars

----------------------------------------------------------------------------
(* String literals of the report display and of main.                      *)

\* src/streamlit_app.py:56  'U+2705 Research completed successfully!'
SuccessBanner ==
    << "U+2705", " ", "R", "e", "s", "e", "a", "r", "c", "h", " ", "c", "o", "m",
       "p", "l", "e", "t", "e", "d", " ", "s", "u", "c", "c", "e", "s", "s",
       "f", "u", "l", "l", "y", "!" >>

\* src/streamlit_app.py:59  'U+1F4CB Research Report'
ReportHeading ==
    << "U+1F4CB", " ", "R", "e", "s", "e", "a", "r", "c", "h", " ", "R", "e", "p",
       "o", "r", "t" >>

\* src/streamlit_app.py:60  '---'
ReportRule ==
    << "-", "-", "-" >>

\* src/streamlit_app.py:73  'U+1F4E5 Download Report'
DownloadLabel ==
    << "U+1F4E5", " ", "D", "o", "w", "n", "l", "o", "a", "d", " ", "R", "e", "p",
       "o", "r", "t" >>

\* src/streamlit_app.py:75  'ai_news_report_'
FileNamePrefix ==
    << "a", "i", "_", "n", "e", "w", "s", "_", "r", "e", "p", "o", "r", "t",
       "_" >>

\* src/streamlit_app.py:75  '.md'
FileNameSuffix ==
    << ".", "m", "d" >>

\* src/streamlit_app.py:76  'text/markdown'
MimeMarkdown ==
    << "t", "e", "x", "t", "/", "m", "a", "r", "k", "d", "o", "w", "n" >>

\* src/streamlit_app.py:146  'U+1F4F0 AI News Crew'
PageTitle ==
    << "U+1F4F0", " ", "A", "I", " ", "N", "e", "w", "s", " ", "C", "r", "e", "w" >>

\* src/streamlit_app.py:147-150  '\n    Welcome to AI News Crew - your intelligent research and...'
Intro ==
    << "\n", " ", " ", " ", " ", "W", "e", "l", "c", "o", "m", "e", " ", "t",
       "o", " ", "A", "I", " ", "N", "e", "w", "s", " ", "C", "r", "e", "w",
       " ", "-", " ", "y", "o", "u", "r", " ", "i", "n", "t", "e", "l", "l",
       "i", "g", "e", "n", "t", " ", "r", "e", "s", "e", "a", "r", "c", "h",
       " ", "a", "n", "d", " ", "r", "e", "p", "o", "r", "t", "i", "n", "g",
       " ", "a", "s", "s", "i", "s", "t", "a", "n", "t", ".", "\n", " ", " ",
       " ", " ", "E", "n", "t", "e", "r", " ", "a", " ", "t", "o", "p", "i",
       "c", " ", "b", "e", "l", "o", "w", " ", "a", "n", "d", " ", "o", "u",
       "r", " ", "A", "I", " ", "c", "r", "e", "w", " ", "w", "i", "l", "l",
       " ", "c", "o", "n", "d", "u", "c", "t", " ", "t", "h", "o", "r", "o",
       "u", "g", "h", " ", "r", "e", "s", "e", "a", "r", "c", "h", " ", "a",
       "n", "d", " ", "g", "e", "n", "e", "r", "a", "t", "e", " ", "a", " ",
       "c", "o", "m", "p", "r", "e", "h", "e", "n", "s", "i", "v", "e", " ",
       "r", "e", "p", "o", "r", "t", ".", "\n", " ", " ", " ", " " >>

\* src/streamlit_app.py:153  'Research Topic'
TopicHeading ==
    << "R", "e", "s", "e", "a", "r", "c", "h", " ", "T", "o", "p", "i", "c" >>

\* src/streamlit_app.py:155  'What would you like to research?'
TopicLabel ==
    << "W", "h", "a", "t", " ", "w", "o", "u", "l", "d", " ", "y", "o", "u",
       " ", "l", "i", "k", "e", " ", "t", "o", " ", "r", "e", "s", "e", "a",
       "r", "c", "h", "?" >>

\* src/streamlit_app.py:168  'U+1F680 Start Research'
StartLabel ==
    << "U+1F680", " ", "S", "t", "a", "r", "t", " ", "R", "e", "s", "e", "a", "r",
       "c", "h" >>

\* src/streamlit_app.py:173  'U+1F504 New Research'
NewLabel ==
    << "U+1F504", " ", "N", "e", "w", " ", "R", "e", "s", "e", "a", "r", "c", "h" >>

\* src/streamlit_app.py:193  'U+1F504 **Processing Status**'
ProcessingInfo ==
    << "U+1F504", " ", "*", "*", "P", "r", "o", "c", "e", "s", "s", "i", "n", "g",
       " ", "S", "t", "a", "t", "u", "s", "*", "*" >>

\* src/streamlit_app.py:197  'Initialising AI crew...'
StatusInitialising ==
    << "I", "n", "i", "t", "i", "a", "l", "i", "s", "i", "n", "g", " ", "A",
       "I", " ", "c", "r", "e", "w", ".", ".", "." >>

\* src/streamlit_app.py:206  'Preparing research parameters...'
StatusPreparing ==
    << "P", "r", "e", "p", "a", "r", "i", "n", "g", " ", "r", "e", "s", "e",
       "a", "r", "c", "h", " ", "p", "a", "r", "a", "m", "e", "t", "e", "r",
       "s", ".", ".", "." >>

\* src/streamlit_app.py:216  'Starting research phase...'
StatusStarting ==
    << "S", "t", "a", "r", "t", "i", "n", "g", " ", "r", "e", "s", "e", "a",
       "r", "c", "h", " ", "p", "h", "a", "s", "e", ".", ".", "." >>

\* src/streamlit_app.py:223  'Conducting research and analysis...'
StatusConducting ==
    << "C", "o", "n", "d", "u", "c", "t", "i", "n", "g", " ", "r", "e", "s",
       "e", "a", "r", "c", "h", " ", "a", "n", "d", " ", "a", "n", "a", "l",
       "y", "s", "i", "s", ".", ".", "." >>

\* src/streamlit_app.py:229  'Finalising report...'
StatusFinalising ==
    << "F", "i", "n", "a", "l", "i", "s", "i", "n", "g", " ", "r", "e", "p",
       "o", "r", "t", ".", ".", "." >>

\* src/streamlit_app.py:249  '---'
FooterRule ==
    << "-", "-", "-" >>

\* src/streamlit_app.py:251-253  "<div style='text-align: center; color: #666;'>Powered by Cre..."
FooterHtml ==
    << "<", "d", "i", "v", " ", "s", "t", "y", "l", "e", "=", "'", "t", "e",
       "x", "t", "-", "a", "l", "i", "g", "n", ":", " ", "c", "e", "n", "t",
       "e", "r", ";", " ", "c", "o", "l", "o", "r", ":", " ", "#", "6", "6",
       "6", ";", "'", ">", "P", "o", "w", "e", "r", "e", "d", " ", "b", "y",
       " ", "C", "r", "e", "w", "A", "I", " ", "U+2022", " ", "B", "u", "i", "l",
       "t", " ", "w", "i", "t", "h", " ", "S", "t", "r", "e", "a", "m", "l",
       "i", "t", "<", "/", "d", "i", "v", ">" >>

----------------------------------------------------------------------------
(* Python built-ins used by the report display and by main.                *)

Digits == <<"0", "1", "2", "3", "4", "5", "6", "7", "8", "9">>

\* str(n) of a non-negative int
RECURSIVE str_int(_)
str_int(n) ==
    IF n < 10 THEN <<Digits[n + 1]>>
    ELSE str_int(n \div 10) \o <<Digits[(n % 10) + 1]>>

\* a strftime field: the decimal number padded with zeros to width w
RECURSIVE zero_padded(_, _)
zero_padded(n, w) ==
    IF Len(str_int(n)) >= w THEN str_int(n) ELSE <<"0">> \o zero_padded(n, w - 1)

\* datetime.strftime('%Y%m%d_%H%M%S')
strftime(now) ==
    zero_padded(now.year, 4) \o zero_padded(now.month, 2) \o zero_padded(now.day, 2)
        \o <<"_">>
        \o zero_padded(now.hour, 2) \o zero_padded(now.minute, 2) \o zero_padded(now.second, 2)

\* hasattr(result, name)
hasattr(result, name) == name \in result.attrs

----------------------------------------------------------------------------
(* display_research_output, lines 49-78.  The value is the sequence of     *)
(* elements it displays; now is the value of datetime.now() at line 75.    *)

\* variant: line 63 written `if result.raw:`, so an empty raw falls back to str
display_research_output_truthy(result, now) ==
    LET content == IF hasattr(result, "raw") /\ truthy(result.raw) THEN result.raw
                   ELSE result.str IN
    << St("success", SuccessBanner),
       St("subheader", ReportHeading),
       St("markdown", ReportRule),
       St("markdown", content),
       [ call      |-> "download_button",
         body      |-> DownloadLabel,
         data      |-> content,
         file_name |-> FileNamePrefix \o strftime(now) \o FileNameSuffix,
         mime      |-> MimeMarkdown ] >>

display_research_output(result, now) ==
    LET content == IF hasattr(result, "raw") THEN result.raw ELSE result.str IN
    << St("success", SuccessBanner),
       St("subheader", ReportHeading),
       St("markdown", ReportRule),
       St("markdown", content),
       [ call      |-> "download_button",
         body      |-> DownloadLabel,
         data      |-> content,
         file_name |-> FileNamePrefix \o strftime(now) \o FileNameSuffix,
         mime      |-> MimeMarkdown ] >>

----------------------------------------------------------------------------
(* What main gets from outside: the external crew and the clock.           *)

\* values kickoff may return: an object with or without the attribute raw,
\* and with its str() form
Results ==
    { [attrs |-> {"raw"}, raw |-> <<"#", " ", "R">>, str |-> <<"o", "b", "j">>],
      [attrs |-> {"raw"}, raw |-> << >>, str |-> <<"o", "b", "j">>],
      [attrs |-> {}, raw |-> << >>, str |-> <<"o", "b", "j">>] }

\* str(e) of the exceptions the external calls may raise
SessionErrors ==
    { << >>,
      <<"A", "P", "I", " ", "k", "e", "y", " ", "n", "o", "t", " ", "f", "o", "u", "n", "d">>,
      <<"C", "o", "n", "n", "e", "c", "t", "i", "o", "n", " ", "t", "i", "m", "e", "o", "u", "t">>,
      <<"O", "u", "t", " ", "o", "f", " ", "m", "e", "m", "o", "r", "y">>,
      <<"U", "n", "a", "b", "l", "e", " ", "t", "o", " ", "c", "o", "n", "n", "e", "c", "t", " ", "t", "o", " ", "s", "e", "r", "v", "e", "r">> }

\* the external calls inside the try block, in program order (lines 220, 226)
ExternalCalls == {"AiNewsCrew", "crew", "kickoff"}

\* one behaviour of the external crew during a submission: kickoff returns a
\* value, or one of the three calls raises an Exception
Externals ==
    {[does |-> "return", at |-> "kickoff", value |-> r] : r \in Results}
        \cup {[does |-> "raise", at |-> a, value |-> m] : a \in ExternalCalls, m \in SessionErrors}

\* successive values of datetime.now()
Clock ==
    << [year |-> 2025, month |-> 12, day |-> 31, hour |-> 23, minute |-> 59, second |-> 59],
       [year |-> 2026, month |-> 1, day |-> 1, hour |-> 0, minute |-> 0, second |-> 5] >>

\* what one submission meets: the behaviour of the crew, the clock at line
\* 212 and, when kickoff returned, the later clock at line 75
Environments ==
    {[ext |-> e, now1 |-> Clock[i], now2 |-> Clock[j]] :
        e \in Externals, i \in 1..Len(Clock), j \in 1..Len(Clock)}

Reads(env) ==
    \E i \in 1..Len(Clock), j \in 1..Len(Clock) :
        /\ env.now1 = Clock[i]
        /\ env.now2 = Clock[j]
        /\ IF env.ext.does = "return" THEN i <= j ELSE i = j

\* the environments whose clock does not run backwards; a submission whose
\* crew raises reads the clock once
ReadEnvironments == {e \in Environments : Reads(e)}

\* values typed into the topic field
SessionTopics ==
    { << >>, <<" ">>,
      <<"A", "I">>, <<" ", "A", "I", " ">>,
      <<"A", "B", "C">>, <<" ", "A", " ", "B", "\n">>,
      <<"A", "<", "C">>,
      <<" ">> \o Repeat("A", MaxTopicLen),
      Repeat("A", MaxTopicLen + 1) }

\* the values that pass line 183
AcceptedTopics == {t \in SessionTopics : validate_topic_input(t)[1]}

----------------------------------------------------------------------------
(* main, lines 128-255.  Keyword arguments that only style an element      *)
(* (help, placeholder, type, use_container_width) are left out; the        *)
(* spinner of line 201 is gone when its block ends.                        *)

\* variant: the Start Research button is displayed only while no research
\* is completed
header_start_hidden(ss) ==
    << St("title", PageTitle),
       St("markdown", Intro),
       St("subheader", TopicHeading),
       [ call  |-> "text_input",
         body  |-> TopicLabel,
         value |-> IF ss.research_completed THEN << >> ELSE ss.last_topic ] >>
    \o (IF ss.research_completed THEN <<St("button", NewLabel)>>
        ELSE <<St("button", StartLabel)>>)

\* variant: the topic field always starts from last_topic
header_value_last_topic(ss) ==
    << St("title", PageTitle),
       St("markdown", Intro),
       St("subheader", TopicHeading),
       [ call  |-> "text_input",
         body  |-> TopicLabel,
         value |-> ss.last_topic ],
       St("button", StartLabel) >>
    \o (IF ss.research_completed THEN <<St("button", NewLabel)>> ELSE << >>)

\* lines 146-176: what main displays before it handles the buttons
header(ss) ==
    << St("title", PageTitle),
       St("markdown", Intro),
       St("subheader", TopicHeading),
       [ call  |-> "text_input",
         body  |-> TopicLabel,
         value |-> IF ss.research_completed THEN << >> ELSE ss.last_topic ],
       St("button", StartLabel) >>
    \o (IF ss.research_completed THEN <<St("button", NewLabel)>> ELSE << >>)

\* lines 249-255
footer == <<St("markdown", FooterRule), St("markdown", FooterHtml)>>

\* lines 191-198: the status container with the latest value of the
\* progress bar and of the status text
status(value, text) ==
    << St("info", ProcessingInfo),
       [call |-> "progress", value |-> value],
       St("text", text) >>

\* lines 233 and 243: status_container.empty() puts an empty element into
\* the container
status_empty == <<St("empty", << >>)>>

\* variant: line 188 stores the topic as typed
store_topic_untrimmed(ss, t) == [ss EXCEPT !.last_topic = t]

\* line 188
store_topic(ss, t) == [ss EXCEPT !.last_topic = strip(t)]

\* variant: line 211 passes the topic as typed
research_inputs_untrimmed(t, now) ==
    [topic |-> t, current_year |-> str_int(now.year)]

\* lines 210-213; now is the value of datetime.now() at line 212
research_inputs(t, now) ==
    [topic |-> strip(t), current_year |-> str_int(now.year)]

\* variant: the success banner of line 56 is displayed before kickoff is called
try_block_banner_first(t, ext, now1, now2) ==
    LET inputs == research_inputs(t, now1) IN
    IF ext.does = "raise" /\ ext.at = "AiNewsCrew" THEN
        [ status |-> status(40, StatusStarting), kickoff_calls |-> << >>,
          result |-> << >>, shown |-> << >>, completed |-> FALSE, exc |-> <<ext.value>> ]
    ELSE IF ext.does = "raise" /\ ext.at = "crew" THEN
        [ status |-> status(70, StatusConducting), kickoff_calls |-> << >>,
          result |-> << >>, shown |-> <<St("success", SuccessBanner)>>,
          completed |-> FALSE, exc |-> <<ext.value>> ]
    ELSE IF ext.does = "raise" THEN
        [ status |-> status(70, StatusConducting), kickoff_calls |-> <<inputs>>,
          result |-> << >>, shown |-> <<St("success", SuccessBanner)>>,
          completed |-> FALSE, exc |-> <<ext.value>> ]
    ELSE
        [ status |-> status(100, StatusFinalising), kickoff_calls |-> <<inputs>>,
          result |-> <<ext.value>>,
          shown |-> status_empty \o display_research_output(ext.value, now2),
          completed |-> TRUE, exc |-> << >> ]

\* variant: a kickoff that raised is called a second time
try_block_retry(t, ext, now1, now2) ==
    LET inputs == research_inputs(t, now1) IN
    IF ext.does = "raise" /\ ext.at = "AiNewsCrew" THEN
        [ status |-> status(40, StatusStarting), kickoff_calls |-> << >>,
          result |-> << >>, shown |-> << >>, completed |-> FALSE, exc |-> <<ext.value>> ]
    ELSE IF ext.does = "raise" /\ ext.at = "crew" THEN
        [ status |-> status(70, StatusConducting), kickoff_calls |-> << >>,
          result |-> << >>, shown |-> << >>, completed |-> FALSE, exc |-> <<ext.value>> ]
    ELSE IF ext.does = "raise" THEN
        [ status |-> status(70, StatusConducting), kickoff_calls |-> <<inputs, inputs>>,
          result |-> << >>, shown |-> << >>, completed |-> FALSE, exc |-> <<ext.value>> ]
    ELSE
        [ status |-> status(100, StatusFinalising), kickoff_calls |-> <<inputs>>,
          result |-> <<ext.value>>,
          shown |-> status_empty \o display_research_output(ext.value, now2),
          completed |-> TRUE, exc |-> << >> ]

\* lines 204-239, the try block: the status it leaves, the kickoff calls it
\* made, the value kickoff returned, what it displayed, whether it reached
\* line 239, and the exception that ended it
try_block(t, ext, now1, now2) ==
    LET inputs == research_inputs(t, now1) IN
    IF ext.does = "raise" /\ ext.at = "AiNewsCrew" THEN
        [ status |-> status(40, StatusStarting), kickoff_calls |-> << >>,
          result |-> << >>, shown |-> << >>, completed |-> FALSE, exc |-> <<ext.value>> ]
    ELSE IF ext.does = "raise" /\ ext.at = "crew" THEN
        [ status |-> status(70, StatusConducting), kickoff_calls |-> << >>,
          result |-> << >>, shown |-> << >>, completed |-> FALSE, exc |-> <<ext.value>> ]
    ELSE IF ext.does = "raise" THEN
        [ status |-> status(70, StatusConducting), kickoff_calls |-> <<inputs>>,
          result |-> << >>, shown |-> << >>, completed |-> FALSE, exc |-> <<ext.value>> ]
    ELSE
        [ status |-> status(100, StatusFinalising), kickoff_calls |-> <<inputs>>,
          result |-> <<ext.value>>,
          shown |-> status_empty \o display_research_output(ext.value, now2),
          completed |-> TRUE, exc |-> << >> ]

\* variant: the except clause clears the status and raises the exception again
except_block_reraise(e) ==
    [shown |-> status_empty, raised |-> <<e>>]

\* lines 241-246, the except clause: what it displays and the exception it
\* lets out of main
except_block(e) ==
    [shown |-> status_empty \o display_error_with_guidance(e), raised |-> << >>]

\* variant: line 175 is missing
reset_keeps_topic(ss) == [ss EXCEPT !.research_completed = FALSE]

\* lines 174-176: the New Research button
reset(ss) == [ss EXCEPT !.research_completed = FALSE, !.last_topic = << >>]

\* variant: line 239 placed after the try statement
complete_after_try(ss, b) == [ss EXCEPT !.research_completed = TRUE]

\* line 239, reached when the try block b ran to its end
complete(ss, b) ==
    IF b.completed THEN [ss EXCEPT !.research_completed = TRUE] ELSE ss

\* lines 187-246: the submission of a topic that passed line 183; v is the
\* validator's result
dispatch(ss, t, v, ext, now1, now2) ==
    LET ss1 == store_topic(ss, t)
        b == try_block(t, ext, now1, now2)
        h == IF b.exc = << >> THEN [shown |-> << >>, raised |-> << >>]
             ELSE except_block(b.exc[1])
    IN
    [ page |-> header(ss) \o b.status \o b.shown \o h.shown
                   \o (IF h.raised = << >> THEN footer ELSE << >>),
      session_state |-> complete(ss1, b),
      ret |-> v,
      run |-> [ submit_button |-> TRUE, new_research |-> FALSE,
                kickoff_calls |-> b.kickoff_calls, result |-> b.result,
                caught |-> b.exc, raised |-> h.raised ] ]

\* variant: the `return` of line 185 is missing, so the submission goes on
\* after the validator's message
submission_no_return(ss, t, ext, now1, now2) ==
    LET v == validate_topic_input(t)
        d == dispatch(ss, t, v, ext, now1, now2)
    IN
    IF ~v[1] THEN
        [d EXCEPT !.page = header(ss) \o <<St("error", v[2])>>
                               \o SubSeq(d.page, Len(header(ss)) + 1, Len(d.page))]
    ELSE d

\* lines 179-246: the submission, from a session ss with t in the topic field
submission(ss, t, ext, now1, now2) ==
    LET v == validate_topic_input(t) IN
    IF ~v[1] THEN
        \* lines 183-185: the message, then return
        [ page |-> header(ss) \o <<St("error", v[2])>>,
          session_state |-> ss,
          ret |-> v,
          run |-> [NoRun EXCEPT !.submit_button = TRUE] ]
    ELSE dispatch(ss, t, v, ext, now1, now2)

\* a button can be pressed when the page shows it
Offered(label) == \E i \in 1..Len(page) : page[i] = St("button", label)

Finish(m, t) ==
    /\ topic' = t
    /\ page' = m.page
    /\ session_state' = m.session_state
    /\ ret' = m.ret
    /\ run' = m.run
    /\ pc' = "idle"
    /\ UNCHANGED error

\* the first execution of main in a new session: no button pressed, the
\* topic field at its default
Init ==
    /\ topic = << >>
    /\ ret = << >>
    /\ error = << >>
    /\ page = header(NewSession) \o footer
    /\ pc = "idle"
    /\ session_state = NewSession
    /\ run = NoRun

\* the user changes the topic field or presses the download button: main
\* runs with no button of lines 167 and 173 pressed
Rerun ==
    /\ pc = "idle"
    /\ \E t \in SessionTopics :
        Finish([ page |-> header(session_state) \o footer,
                 session_state |-> session_state,
                 ret |-> << >>,
                 run |-> NoRun ], t)

\* the user presses Start Research with t in the topic field; the crew and
\* the clock are met only by a topic that passes line 183
Submit ==
    /\ pc = "idle"
    /\ Offered(StartLabel)
    /\ \E t \in SessionTopics :
        \E env \in IF t \in AcceptedTopics
                   THEN ReadEnvironments
                   ELSE {CHOOSE e \in ReadEnvironments : TRUE} :
            \E m \in {submission(session_state, t, env.ext, env.now1, env.now2)} :
                Finish(m, t)

\* the user presses New Research: lines 174-176 change the session and
\* st.rerun() starts main again, which runs to its end with no button pressed
NewResearch ==
    /\ pc = "idle"
    /\ Offered(NewLabel)
    /\ \E t \in SessionTopics :
        Finish([ page |-> header(reset(session_state)) \o footer,
                 session_state |-> reset(session_state),
                 ret |-> << >>,
                 run |-> [NoRun EXCEPT !.new_research = TRUE] ], t)

Next == Rerun \/ Submit \/ NewResearch

Spec == Init /\ [][Next]_vars

----------------------------------------------------------------------------
(* Vocabulary of the validator properties, stated on the raw input without *)
(* the validator's own helpers.                                            *)

\* positions of the raw input holding a non-whitespace code point
NonBlank(s) == {i \in 1..Len(s) : s[i] \notin Whitespace}

\* first and last of these positions (s holds a non-whitespace code point)
FirstNonBlank(s) ==
    CHOOSE m \in 1..Len(s) : s[m] \notin Whitespace /\ \A x \in 1..(m - 1) : s[x] \in Whitespace
LastNonBlank(s) ==
    CHOOSE m \in 1..Len(s) : s[m] \notin Whitespace /\ \A x \in (m + 1)..Len(s) : s[x] \in Whitespace

\* length of the input once surrounding whitespace is not counted
TrimmedLen(s) ==
    IF NonBlank(s) = {} THEN 0 ELSE LastNonBlank(s) - FirstNonBlank(s) + 1

\* the input once surrounding whitespace is removed
Trimmed(s) ==
    IF NonBlank(s) = {} THEN << >> ELSE SubSeq(s, FirstNonBlank(s), LastNonBlank(s))

SetMin(S) == CHOOSE m \in S : \A x \in S : m <= x

HasForbidden(s) == \E i \in 1..Len(s) : s[i] \in {"<", ">", "{", "}", "[", "]"}

\* the checks an input fails, numbered in the documented order
\* 1 EmptyInput, 2 TooShort, 3 TooLong, 4 InvalidCharacters
FailedChecks(s) ==
    {k \in 1..4 : \/ k = 1 /\ TrimmedLen(s) = 0
                  \/ k = 2 /\ TrimmedLen(s) < 3
                  \/ k = 3 /\ TrimmedLen(s) > 200
                  \/ k = 4 /\ HasForbidden(s)}

CheckMessage(k) ==
    CASE k = 1 -> MsgEmptyInput
      [] k = 2 -> MsgTooShort
      [] k = 3 -> MsgTooLong
      [] k = 4 -> MsgInvalidCharacters

Returned == pc = "return"

----------------------------------------------------------------------------
(* C1: an input failing more than one check is reported with the message   *)
(* of the earliest failing check in the order EmptyInput, TooShort,        *)
(* TooLong, InvalidCharacters, and with no other.                          *)
C1_FirstFailingCheck ==
    (Returned /\ Cardinality(FailedChecks(topic)) > 1)
        => ret = <<FALSE, CheckMessage(SetMin(FailedChecks(topic)))>>

\* an over-long input that also holds a forbidden character was reported too long
C1_Witness ==
    /\ Returned
    /\ FailedChecks(topic) = {3, 4}
    /\ ret = <<FALSE, MsgTooLong>>

(* C2 as stated: every input holding one of < > { } [ ] is reported with   *)
(* the invalid-characters message, whatever its length.                    *)
C2_AnyLength ==
    (Returned /\ HasForbidden(topic)) => ret = <<FALSE, MsgInvalidCharacters>>

(* C2 amended: an input holding one of < > { } [ ] whose trimmed length is *)
(* in 3..200 is reported with the invalid-characters message; a shorter    *)
(* one is reported too short and a longer one too long.                    *)
C2_WithinLength ==
    (Returned /\ HasForbidden(topic)) =>
        ret = <<FALSE, IF TrimmedLen(topic) < 3 THEN MsgTooShort
                       ELSE IF TrimmedLen(topic) > 200 THEN MsgTooLong
                       ELSE MsgInvalidCharacters>>

C2_Witness ==
    /\ Returned
    /\ \E i \in 1..Len(topic) : topic[i] = "]"
    /\ TrimmedLen(topic) = 200
    /\ ret = <<FALSE, MsgInvalidCharacters>>

(* C3: an input whose trimmed length is in 3..200, both ends included, and *)
(* that holds none of < > { } [ ] is accepted with (True, "").             *)
C3_ValidAccepted ==
    (Returned /\ TrimmedLen(topic) \in 3..200 /\ ~HasForbidden(topic))
        => ret = <<TRUE, << >> >>

\* an input of trimmed length exactly 200, longer than 200 untrimmed, was accepted
C3_Witness ==
    /\ Returned
    /\ TrimmedLen(topic) = 200
    /\ Len(topic) > 200
    /\ ret = <<TRUE, << >> >>

(* C4 as stated: a successful validation returns the trimmed topic.        *)
C4_ReturnsTrimmed ==
    (Returned /\ ret[1]) => ret[2] = Trimmed(topic)

(* C4 amended: a successful validation returns the empty message as its    *)
(* second component; the trimmed topic is never part of the result.        *)
C4_ReturnsEmptyMessage ==
    (Returned /\ ret[1]) => (Len(ret) = 2 /\ ret[2] = << >> /\ ret[2] # Trimmed(topic))

C4_Witness ==
    /\ Returned
    /\ ret[1]
    /\ Trimmed(topic) # topic

(* C5: an input that is empty or holds only whitespace is reported with    *)
(* the enter-a-topic message, never with the too-short message.            *)
C5_BlankIsEmptyInput ==
    (Returned /\ \A i \in 1..Len(topic) : topic[i] \in Whitespace)
        => (ret = <<FALSE, MsgEmptyInput>> /\ ret[2] # MsgTooShort)

\* a non-empty input of whitespace only was reported as empty
C5_Witness ==
    /\ Returned
    /\ Len(topic) > 0
    /\ NonBlank(topic) = {}
    /\ ret = <<FALSE, MsgEmptyInput>>

(* C6: an input of trimmed length 1 or 2 is reported too short, however    *)
(* long it is with its surrounding whitespace.                             *)
C6_ShortAfterTrim ==
    (Returned /\ TrimmedLen(topic) \in {1, 2}) => ret = <<FALSE, MsgTooShort>>

\* an input of 3 or more code points, 2 of them after trimming, was reported too short
C6_Witness ==
    /\ Returned
    /\ Len(topic) >= 3
    /\ TrimmedLen(topic) = 2
    /\ ret = <<FALSE, MsgTooShort>>

(* C7: an input of trimmed length above 200 is reported too long; an input *)
(* longer than 200 only by its surrounding whitespace is not.              *)
C7_LongAfterTrim ==
    Returned =>
        /\ TrimmedLen(topic) > 200 => ret = <<FALSE, MsgTooLong>>
        /\ (Len(topic) > 200 /\ TrimmedLen(topic) <= 200) => ret[2] # MsgTooLong

C7_Witness ==
    /\ Returned
    /\ TrimmedLen(topic) = 201
    /\ Len(topic) > 201
    /\ ret = <<FALSE, MsgTooLong>>

\* the other case of C7: 200 code points plus surrounding whitespace, not too long
C7_PaddedReached ==
    /\ Returned
    /\ TrimmedLen(topic) = 200
    /\ Len(topic) > 200
    /\ ret[2] # MsgTooLong

----------------------------------------------------------------------------
(* Vocabulary of the error guidance properties.                            *)

SameLetter(a, b) ==
    a = b \/ \E i \in 1..26 : {a, b} = {UpperCase[i], LowerCase[i]}

\* word occurs in s when letter case is disregarded
ContainsCI(word, s) ==
    \E i \in 0..(Len(s) - Len(word)) :
        \A j \in 1..Len(word) : SameLetter(s[i + j], word[j])

\* the guidance categories, numbered by priority
\* 1 API configuration, 2 connection, 3 resource, 4 general troubleshooting
Guidance(g) ==
    CASE g = 1 -> <<St("warning", ApiTitle), St("info", ApiInfo)>>
      [] g = 2 -> <<St("warning", ConnectionTitle), St("info", ConnectionInfo)>>
      [] g = 3 -> <<St("warning", ResourceTitle), St("info", ResourceInfo)>>
      [] g = 4 -> <<St("warning", GeneralTitle), St("info", GeneralInfo)>>

\* the categories whose trigger words a message holds; general has none
Triggered(s) ==
    {g \in 1..3 :
        \/ g = 1 /\ (ContainsCI(KwApi, s) \/ ContainsCI(KwKey, s))
        \/ g = 2 /\ (ContainsCI(KwTimeout, s) \/ ContainsCI(KwConnection, s))
        \/ g = 3 /\ (ContainsCI(KwMemory, s) \/ ContainsCI(KwResource, s))}

\* the categories whose warning or info text is on the page
ShownGuidance ==
    {g \in 1..4 : \E i \in 1..Len(page) : page[i] \in {Guidance(g)[1], Guidance(g)[2]}}

CallsOf(call) == {i \in 1..Len(page) : page[i].call = call}

Shown == pc = "shown"

HasCapital(s) == \E i \in 1..Len(s) : \E k \in 1..26 : s[i] = UpperCase[k]

(* C8: for a message holding trigger words of several categories, the      *)
(* guidance shown is that of the highest-priority category present (API    *)
(* over connection over resource), whatever the letter case of the message.*)
C8_HighestPriorityWins ==
    (Shown /\ Cardinality(Triggered(error)) >= 2)
        => SubSeq(page, 2, Len(page)) = Guidance(SetMin(Triggered(error)))

\* a message in capitals with a timeout and a memory trigger got connection guidance
C8_Witness ==
    /\ Shown
    /\ Triggered(error) = {2, 3}
    /\ HasCapital(error)
    /\ ContainsCI(KwTimeout, error)
    /\ ContainsCI(KwMemory, error)
    /\ ShownGuidance = {2}

(* C9: for every message, the empty one and those without a trigger word   *)
(* included, the display completes and shows the error line followed by    *)
(* the warning and the info of exactly one of the four categories.         *)
C9_ExactlyOneCategory ==
    /\ pc = "call" => ENABLED CallDisplayError
    /\ Shown =>
        /\ Cardinality(ShownGuidance) = 1
        /\ Cardinality(CallsOf("warning")) = 1
        /\ Cardinality(CallsOf("info")) = 1
        /\ \E g \in 1..4 : page = <<St("error", ErrorPrefix \o error)>> \o Guidance(g)

\* the empty message got the general guidance
C9_Witness ==
    /\ Shown
    /\ error = << >>
    /\ ShownGuidance = {4}

KwConnect == <<"c", "o", "n", "n", "e", "c", "t">>

(* C10: every message holding "timeout", "connection" or "connect" and no  *)
(* api/key trigger, as the connection errors listed by the test do, gets   *)
(* the connection guidance.                                                *)
C10_ConnectionErrorsCategorised ==
    ( /\ Shown
      /\ 1 \notin Triggered(error)
      /\ \/ ContainsCI(KwTimeout, error)
         \/ ContainsCI(KwConnection, error)
         \/ ContainsCI(KwConnect, error) )
        => ShownGuidance = {2}

----------------------------------------------------------------------------
(* Vocabulary of the session properties.                                   *)

Idle == pc = "idle"

OnPage(el) == \E i \in 1..Len(page) : page[i] = el

\* the latest execution of main handled a press of Start Research
Submitted == Idle /\ run.submit_button

\* the lines "An error occurred during research: ..." on the page
ErrorLines ==
    {i \in 1..Len(page) :
        /\ page[i].call = "error"
        /\ Len(page[i].body) >= Len(ErrorPrefix)
        /\ SubSeq(page[i].body, 1, Len(ErrorPrefix)) = ErrorPrefix}

\* the warnings and infos of the guidance categories on the page
GuidanceCalls ==
    {i \in 1..Len(page) : \E g \in 1..4 : page[i] \in {Guidance(g)[1], Guidance(g)[2]}}

FooterShown ==
    /\ Len(page) >= 2
    /\ SubSeq(page, Len(page) - 1, Len(page))
           = <<St("markdown", FooterRule), St("markdown", FooterHtml)>>

(* C11: an exception raised by the external calls of a submission is       *)
(* caught: none leaves main, main runs to its footer, and the page shows   *)
(* one "An error occurred during research" line carrying the message and   *)
(* the warning and info of exactly one of the four guidance categories.    *)
C11_DispatchErrorCaught ==
    (Submitted /\ run.caught # << >>) =>
        /\ run.raised = << >>
        /\ FooterShown
        /\ Cardinality(ErrorLines) = 1
        /\ OnPage(St("error", ErrorPrefix \o run.caught[1]))
        /\ Cardinality(ShownGuidance) = 1
        /\ Cardinality(GuidanceCalls) = 2
        /\ Cardinality(CallsOf("warning")) = 1

\* kickoff was called and raised "API key not found"; the API guidance is shown
C11_Witness ==
    /\ Submitted
    /\ run.kickoff_calls # << >>
    /\ run.caught # << >>
    /\ ContainsCI(KwKey, run.caught[1])
    /\ ShownGuidance = {1}
    /\ FooterShown

(* C12: kickoff is called only for a topic that passed validation; when    *)
(* the submitted topic fails validation the page ends with the validator's *)
(* message, kickoff is not called and session_state is left as it was.     *)
C12_InvalidNotDispatched ==
    /\ [](Submitted =>
            /\ run.kickoff_calls # << >> => (ret[1] /\ FailedChecks(topic) = {})
            /\ FailedChecks(topic) # {} =>
                /\ page[Len(page)]
                       = St("error", CheckMessage(SetMin(FailedChecks(topic))))
                /\ run.kickoff_calls = << >>
                /\ run.result = << >>)
    /\ [][(run'.submit_button /\ FailedChecks(topic') # {})
              => session_state' = session_state]_vars

\* a session holding a last topic and a completed research refused a topic
C12_Witness ==
    /\ Submitted
    /\ FailedChecks(topic) = {4}
    /\ page[Len(page)] = St("error", MsgInvalidCharacters)
    /\ session_state.research_completed
    /\ session_state.last_topic # << >>
    /\ run.kickoff_calls = << >>

\* the values of the topic field that pass every check
ValidTopics == {t \in SessionTopics : FailedChecks(t) = {}}

\* the latest submission failed: its topic was refused or its dispatch raised
Failed == Submitted /\ (FailedChecks(topic) # {} \/ run.caught # << >>)

(* C13: after a submission that ended in a validation failure or in a      *)
(* dispatch failure, Start Research is on the page and can be pressed, and *)
(* the submission that follows goes through the same pass: a valid topic   *)
(* is stored and dispatched, ending in a report or in a caught exception,  *)
(* and an invalid one is refused with its message.                         *)
C13_FailureNotFatal ==
    /\ [](Failed => (Idle /\ Offered(StartLabel) /\ ENABLED Submit))
    /\ [][(Failed /\ run'.submit_button) =>
             IF topic' \in ValidTopics
             THEN /\ ret' = <<TRUE, << >> >>
                  /\ session_state'.last_topic = Trimmed(topic')
                  /\ run'.result # << >> \/ run'.caught # << >>
             ELSE /\ ~ret'[1]
                  /\ page'[Len(page')] = St("error", ret'[2])]_vars

\* a dispatch failed in a session whose research was completed before
C13_Witness ==
    /\ Failed
    /\ run.caught # << >>
    /\ session_state.research_completed
    /\ Offered(StartLabel)

(* C14 as stated: kickoff is called exactly once by the submission of a    *)
(* valid topic and not at all by the submission of an invalid one.         *)
C14_OncePerValidTopic ==
    Submitted =>
        Len(run.kickoff_calls) = (IF FailedChecks(topic) = {} THEN 1 ELSE 0)

(* C14 amended: a submission calls kickoff at most once: not at all for an *)
(* invalid topic, exactly once when kickoff returned a result, and for a   *)
(* valid topic not at all only when an exception was caught before kickoff *)
(* was reached; a kickoff that raised is not called again.                 *)
C14_AtMostOnce ==
    Submitted =>
        /\ Len(run.kickoff_calls) <= 1
        /\ FailedChecks(topic) # {} => run.kickoff_calls = << >>
        /\ run.result # << >> => Len(run.kickoff_calls) = 1
        /\ (FailedChecks(topic) = {} /\ run.kickoff_calls = << >>)
               => (run.caught # << >> /\ run.result = << >>)

\* kickoff was called once, raised, and was not called again
C14_Witness ==
    /\ Submitted
    /\ Len(run.kickoff_calls) = 1
    /\ run.caught # << >>
    /\ run.result = << >>

IsDigit(c) == c \in {"0", "1", "2", "3", "4", "5", "6", "7", "8", "9"}

DigitValue(c) ==
    CASE c = "0" -> 0 [] c = "1" -> 1 [] c = "2" -> 2 [] c = "3" -> 3 [] c = "4" -> 4
      [] c = "5" -> 5 [] c = "6" -> 6 [] c = "7" -> 7 [] c = "8" -> 8 [] c = "9" -> 9

\* the number a str of decimal digits denotes
RECURSIVE DecimalValue(_)
DecimalValue(s) ==
    IF s = << >> THEN 0
    ELSE 10 * DecimalValue(SubSeq(s, 1, Len(s) - 1)) + DigitValue(s[Len(s)])

ClockYears == {Clock[i].year : i \in 1..Len(Clock)}

Content(r) == IF "raw" \in r.attrs THEN r.raw ELSE r.str

Downloads == CallsOf("download_button")

(* C16: for a result that has the attribute raw the report shows raw as it *)
(* is, and for one that has not it shows str(result); the same content is  *)
(* displayed as markdown and offered by the one download button.           *)
C16_ReportContent ==
    (Submitted /\ run.result # << >>) =>
        /\ Cardinality(Downloads) = 1
        /\ \A i \in Downloads :
              /\ page[i].data = Content(run.result[1])
              /\ i > 1
              /\ page[i - 1] = St("markdown", Content(run.result[1]))

\* a result whose raw is the empty str was displayed as the empty str
C16_Witness ==
    /\ Submitted
    /\ run.result # << >>
    /\ "raw" \in run.result[1].attrs
    /\ run.result[1].raw = << >>
    /\ run.result[1].str # << >>
    /\ \E i \in Downloads : page[i].data = << >>

\* the other case of C16: a result without raw was displayed by its str form
C16_FallbackReached ==
    /\ Submitted
    /\ run.result # << >>
    /\ run.result[1].attrs = {}
    /\ \E i \in Downloads : page[i].data = run.result[1].str

BannerShown == OnPage(St("success", SuccessBanner))

C17_ReportReached ==
    /\ Submitted
    /\ BannerShown
    /\ ErrorLines = {}

(* C18: New Research is on the page only when research_completed is true; *)
(* pressing it sets research_completed to false and last_topic to the      *)
(* empty str, which is the session's initial state, displays the initial   *)
(* page and calls neither the validator nor kickoff.                       *)
C18_ResetToInitial ==
    /\ []((Idle /\ Offered(NewLabel)) => session_state.research_completed)
    /\ [][run'.new_research =>
             /\ session_state.research_completed
             /\ session_state' = [research_completed |-> FALSE, last_topic |-> << >>]
             /\ ~run'.submit_button
             /\ ret' = << >>
             /\ run'.kickoff_calls = << >>
             /\ run'.result = << >>
             /\ ~\E i \in 1..Len(page') : page'[i] = St("button", NewLabel)]_vars

\* New Research was pressed and the session is as it was at the start
C18_Witness ==
    /\ Idle
    /\ run.new_research
    /\ session_state = [research_completed |-> FALSE, last_topic |-> << >>]
    /\ ~Offered(NewLabel)
    /\ page[4].value = << >>

(* C19: research_completed turns from false to true only in a submission   *)
(* whose kickoff returned a result and whose report was displayed, and     *)
(* from true to false only by New Research; a submission that is refused   *)
(* or whose dispatch raises leaves it as it was.                           *)
C19_CompletedFlag ==
    [][ /\ (~session_state.research_completed /\ session_state'.research_completed) =>
              /\ run'.submit_button
              /\ run'.result # << >>
              /\ run'.caught = << >>
              /\ \E i \in 1..Len(page') : page'[i] = St("success", SuccessBanner)
              /\ \E i \in 1..Len(page') : page'[i].call = "download_button"
        /\ (session_state.research_completed /\ ~session_state'.research_completed) =>
              run'.new_research
        /\ (run'.submit_button /\ (FailedChecks(topic') # {} \/ run'.caught # << >>)) =>
              session_state'.research_completed = session_state.research_completed
      ]_vars

\* the flag has just turned true: the report is shown and New Research not yet
C19_Witness ==
    /\ Submitted
    /\ run.result # << >>
    /\ session_state.research_completed
    /\ BannerShown
    /\ ~Offered(NewLabel)

\* a str satisfying the Topic invariants
IsTopic(s) ==
    /\ Trimmed(s) = s
    /\ Len(s) \in 3..200
    /\ ~HasForbidden(s)

(* C20: last_topic is always the empty str or a trimmed str of 3 to 200    *)
(* code points without < > { } [ ]; the topic of every request passed to   *)
(* kickoff equals last_topic; and after the submission of a valid topic    *)
(* last_topic is that topic trimmed, whether the dispatch succeeded,       *)
(* raised in kickoff, or raised before kickoff was reached.                *)
C20_LastTopic ==
    /\ session_state.last_topic = << >> \/ IsTopic(session_state.last_topic)
    /\ Submitted =>
          /\ \A k \in 1..Len(run.kickoff_calls) :
                run.kickoff_calls[k].topic = session_state.last_topic
          /\ FailedChecks(topic) = {} => session_state.last_topic = Trimmed(topic)

\* a padded topic of 200 code points was stored trimmed although kickoff raised
C20_Witness ==
    /\ Submitted
    /\ run.kickoff_calls # << >>
    /\ run.caught # << >>
    /\ Trimmed(topic) # topic
    /\ Len(session_state.last_topic) = 200
    /\ session_state.last_topic = Trimmed(topic)

\* the default values of the topic fields on a page
FieldDefaults(p) == {p[i].value : i \in {j \in 1..Len(p) : p[j].call = "text_input"}}

\* the default the topic field must have in a run that finds the session as ss
ExpectedDefault(ss) == IF ss.research_completed THEN << >> ELSE ss.last_topic

(* C21: every page shows one topic field, and each execution of main gives *)
(* it the default value that the session state found by that execution     *)
(* prescribes: the empty str when research_completed is true and           *)
(* last_topic otherwise (the execution started by st.rerun() finds the     *)
(* session as New Research left it).  So the run that follows a dispatch   *)
(* that raised, in a session with no completed research, prefills the      *)
(* field with the submitted topic trimmed, and the run that follows a      *)
(* displayed report leaves the field empty.                                *)
C21_TopicFieldDefault ==
    /\ [](Idle => Cardinality({i \in 1..Len(page) : page[i].call = "text_input"}) = 1)
    /\ [][ /\ FieldDefaults(page')
                 = {ExpectedDefault(IF run'.new_research THEN session_state'
                                    ELSE session_state)}
           /\ ( /\ Submitted
                /\ FailedChecks(topic) = {}
                /\ run.caught # << >>
                /\ ~session_state.research_completed )
                 => FieldDefaults(page') = {Trimmed(topic)}
           /\ (Submitted /\ BannerShown) => FieldDefaults(page') = {<< >>}
         ]_vars

\* a run without a button pressed, in a session with no completed research
\* whose last valid topic was padded: the field is prefilled with its 200
\* code points
C21_Witness ==
    /\ Idle
    /\ ~run.submit_button
    /\ ~run.new_research
    /\ ~session_state.research_completed
    /\ session_state.last_topic # << >>
    /\ FieldDefaults(page) = {session_state.last_topic}
    /\ \E d \in FieldDefaults(page) : Len(d) = 200

\* the other case of C21: a run in a session with a completed research and
\* a stored topic leaves the field empty
C21_EmptyReached ==
    /\ Idle
    /\ ~run.submit_button
    /\ session_state.research_completed
    /\ session_state.last_topic # << >>
    /\ FieldDefaults(page) = {<< >>}

====
